---- MODULE Spec2Model ----
(***************************************************************************)
(* A model of raysect's RGBPipeline2D / XYZPixelProcessor                  *)
(* (src/raysect/optical/observer/pipeline2d.py) and OrthographicCamera     *)
(* (src/raysect/optical/observer/orthographic.py).                         *)
(*                                                                         *)
(* Floating point values are modelled as rationals <<num, den>>; the += of *)
(* update rounds sums of large magnitude as float addition does.           *)
(* Frame2D, Pixel, the Camera base class, the point/vector generators and  *)
(* the colour transforms live outside src/; they are modelled from the     *)
(* written specification.                                                  *)
(***************************************************************************)
EXTENDS Integers, Sequences, FiniteSets, TLC

\* ------------------------------------------------------------------------
\* Bounds of the model
\* ------------------------------------------------------------------------
MaxPasses == 2      \* initialise calls in one behaviour
MaxUpdates == 2     \* update calls between two initialise calls
MaxFinalise == 2    \* finalise calls between two initialise calls
MaxTime == 4        \* clock ticks in one behaviour
ClockStart == 3     \* the clock's reading at construction
MaxSamples == 3     \* add_sample calls in one render
MaxBatch == 3       \* update calls of a batch whose order is varied
SignificandBits == 3  \* significant bits a float keeps (float64 keeps 53)

\* ------------------------------------------------------------------------
\* Exact rational arithmetic standing for Python floats
\* ------------------------------------------------------------------------
RECURSIVE GCD(_, _)
GCD(a, b) == IF b = 0 THEN a ELSE GCD(b, a % b)

Abs(i) == IF i < 0 THEN -i ELSE i

\* the normalised rational n/d (d # 0)
Rat(n, d) ==
    LET s == IF d < 0 THEN -1 ELSE 1
        g == GCD(Abs(n), Abs(d))
    IN  <<(s * n) \div g, (s * d) \div g>>

RInt(i) == <<i, 1>>
R0 == RInt(0)
R1 == RInt(1)
RHalf == <<1, 2>>
RAdd(a, b) == Rat(a[1] * b[2] + b[1] * a[2], a[2] * b[2])
RSub(a, b) == Rat(a[1] * b[2] - b[1] * a[2], a[2] * b[2])
RMul(a, b) == Rat(a[1] * b[1], a[2] * b[2])
RDiv(a, b) == Rat(a[1] * b[2], a[2] * b[1])
RLt(a, b) == a[1] * b[2] < b[1] * a[2]
RLe(a, b) == a[1] * b[2] <= b[1] * a[2]
RAbs(a) == <<Abs(a[1]), a[2]>>

\* ------------------------------------------------------------------------
\* Rounding of float addition
\* ------------------------------------------------------------------------
\* A float keeps SignificandBits significant bits: a sum of magnitude
\* 2^SignificandBits or more is rounded to the nearest multiple of its unit
\* in the last place, ties to the even multiple. Sums of smaller magnitude
\* are kept as they are (their rounding is not modelled).
RECURSIVE Pow2(_)
Pow2(n) == IF n = 0 THEN 1 ELSE 2 * Pow2(n - 1)

\* the unit in the last place of the magnitude a
RECURSIVE UnitOf(_, _)
UnitOf(a, u) ==
    IF RLt(a, RInt(Pow2(SignificandBits) * u)) THEN u ELSE UnitOf(a, 2 * u)

RoundFloat(x) ==
    LET a == RAbs(x)
        u == UnitOf(a, 1)
        q == a[1] \div (a[2] * u)
        twice_rest == RSub(RMul(RInt(2), a), RInt(2 * q * u))
        up == \/ RLt(RInt(u), twice_rest)
              \/ twice_rest = RInt(u) /\ q % 2 = 1
        r == RInt((IF up THEN q + 1 ELSE q) * u)
    IN  IF RLt(a, RInt(Pow2(SignificandBits))) THEN x
        ELSE IF x[1] < 0 THEN RSub(R0, r) ELSE r

\* a + b on floats
FloatAdd(a, b) == RoundFloat(RAdd(a, b))

\* ------------------------------------------------------------------------
\* Arrays
\* ------------------------------------------------------------------------
Chan == 0 .. 2
None == [none |-> TRUE]

\* the index set of an array of shape (pixels[0], pixels[1]); sequences are
\* 1-based, so pixels[1] and pixels[2] stand for Python's pixels[0], pixels[1]
Grid(pixels) == (0 .. pixels[1] - 1) \X (0 .. pixels[2] - 1)

Tri(a, b, c) == (0 :> a) @@ (1 :> b) @@ (2 :> c)

\* np.zeros((pixels[0], pixels[1], 3)): an array is its shape and its elements
Zeros(pixels) ==
    [shape |-> pixels, at |-> [q \in Grid(pixels) |-> [c \in Chan |-> R0]]]

\* ------------------------------------------------------------------------
\* Inputs the drivers draw from
\* ------------------------------------------------------------------------
Dims == {<<1, 1>>, <<2, 1>>}
PixelIds == Grid(<<2, 1>>)
SampleCounts == {1, 2}
UpdateTimes == {1, 2}
Sensitivities == {RInt(2)}
Slice1 == [min_wavelength |-> 375, max_wavelength |-> 557, num_samples |-> 2]
Slice2 == [min_wavelength |-> 557, max_wavelength |-> 740, num_samples |-> 2]
SliceSets == {<<Slice1, Slice2>>}

\* packed results (mean[3], variance[3]) as pack_results returns them
PackUnit == [mean |-> Tri(R1, R1, R1), variance |-> Tri(R0, R0, R0)]
PackMixed == [mean |-> Tri(R1, R0, RInt(2)), variance |-> Tri(RInt(2), R0, RHalf)]
\* a mean at which one more unit is lost to rounding
PackLarge ==
    [mean |-> Tri(RInt(Pow2(SignificandBits)), R1, R0), variance |-> Tri(R0, R0, R0)]
Packs == {PackMixed}

\* ------------------------------------------------------------------------
\* State
\* ------------------------------------------------------------------------
VARIABLES
    \* RGBPipeline2D attributes
    sensitivity, display_progress, display_timer, display_update_time,
    accumulate, xyz_frame, rgb_frame, working_mean, working_variance,
    resampled_xyz, samples,
    \* environment: the wall clock time() reads, the display surface, and the
    \* number of Frame2D objects allocated so far (object identity)
    now, display_available, allocs,
    \* observation of the driver: the last call and its outcome, the position
    \* in the render protocol, what the current and previous render were fed,
    \* and the Frame Buffer as the last finalise left it (intact: every
    \* initialise since had accumulate set and asked for the same dimensions)
    call, phase, run, prev, settled, passes, n_updates, fins, last_refresh

pipeVars == <<sensitivity, display_progress, display_timer, display_update_time,
              accumulate, xyz_frame, rgb_frame, working_mean, working_variance,
              resampled_xyz, samples>>
envVars == <<now, display_available, allocs>>
obsVars == <<call, phase, run, prev, settled, passes, n_updates, fins, last_refresh>>

\* ------------------------------------------------------------------------
\* Frame2D (raysect.optical.observer.frame, outside src/)
\* ------------------------------------------------------------------------
\* Frame2D(pixels, channels=3): all statistics zero, no samples
Frame2D(id, pixels) ==
    [id |-> id, pixels |-> pixels,
     mean |-> Zeros(pixels), variance |-> Zeros(pixels),
     samples |-> [shape |-> pixels,
                  at |-> [q \in Grid(pixels) |-> [c \in Chan |-> 0]]]]

Dec(n) == IF n > 0 THEN n - 1 ELSE 0

\* the two-group merge of (m1, v1, n1) with (m2, v2, n2): pooled mean weighted
\* by the counts, pooled variance from the within-group and between-group
\* dispersion; fewer than two samples have variance zero
PooledMean(m1, n1, m2, n2) ==
    RDiv(RAdd(RMul(RInt(n1), m1), RMul(RInt(n2), m2)), RInt(n1 + n2))

PooledVariance(m1, v1, n1, m2, v2, n2) ==
    IF n1 + n2 < 2 THEN R0
    ELSE LET d == RSub(m1, m2)
             within == RAdd(RMul(RInt(Dec(n1)), v1), RMul(RInt(Dec(n2)), v2))
             between == RDiv(RMul(RInt(n1 * n2), RMul(d, d)), RInt(n1 + n2))
         IN  RDiv(RAdd(within, between), RInt(n1 + n2 - 1))

\* Frame2D.combine_samples(x, y, channel, mean, variance, sample_count) on
\* the statistic st = <<mean, variance, samples>> of one pixel and channel
CombineSamples(st, mean, variance, sample_count) ==
    IF st[3] + sample_count < 1 THEN st
    ELSE <<PooledMean(st[1], st[3], mean, sample_count),
           PooledVariance(st[1], st[2], st[3], mean, variance, sample_count),
           st[3] + sample_count>>

\* ------------------------------------------------------------------------
\* RGBPipeline2D
\* ------------------------------------------------------------------------
\* ciexyz_to_srgb (raysect.optical.colour, outside src/): an uninterpreted
\* transform; channel c of the result is the term <<"srgb", c, x, y, z>>
ciexyz_to_srgb(x, y, z) == [c \in Chan |-> <<"srgb", c, x, y, z>>]

\* resample_ciexyz (raysect.optical.colour, outside src/), uninterpreted
resample_ciexyz(min_wavelength, max_wavelength, num_samples) ==
    <<"cmf", min_wavelength, max_wavelength, num_samples>>

\* faulty variants of the reuse decision
ReallocNeeded_IgnoresAccumulate(pixels) ==
    \/ xyz_frame = None
    \/ xyz_frame.pixels # pixels

ReallocNeeded_Always(pixels) == TRUE

ReallocNeeded_IgnoresDims(pixels) ==
    \/ ~accumulate
    \/ xyz_frame = None

\* faulty variant: an existing buffer is never replaced
ReallocNeeded_Never(pixels) == xyz_frame = None

\* faulty variant: a buffer that is wide enough is kept
ReallocNeeded_SmallerOnly(pixels) ==
    \/ ~accumulate
    \/ xyz_frame = None
    \/ xyz_frame.pixels[1] < pixels[1]
    \/ xyz_frame.pixels[2] < pixels[2]

\* the condition of initialise under which the frame buffers are replaced
ReallocNeeded(pixels) ==
    \/ ~accumulate
    \/ xyz_frame = None
    \/ xyz_frame.pixels # pixels

\* faulty variant: the frame data is not checked
DisplayOutcome_Unchecked(rgb) ==
    IF ~display_available THEN "DisplayError" ELSE "ok"

\* display(): "RuntimeError" without frame data, else what the surface does
DisplayOutcome(rgb) ==
    IF rgb = None THEN "RuntimeError"
    ELSE IF ~display_available THEN "DisplayError"
    ELSE "ok"

\* faulty variant: the sensitivity is not applied
GenerateSRGBFrame_NoSensitivity(frame, rgb) ==
    [rgb EXCEPT !.at =
        [q \in Grid(rgb.shape) |->
            LET t == ciexyz_to_srgb(frame.mean.at[q][0], frame.mean.at[q][1],
                                    frame.mean.at[q][2])
            IN  [c \in Chan |-> t[c]]]]

\* _generate_srgb_frame: the display buffer regenerated from the frame
GenerateSRGBFrame(frame, rgb) ==
    [rgb EXCEPT !.at =
        [q \in Grid(rgb.shape) |->
            LET t == ciexyz_to_srgb(RMul(frame.mean.at[q][0], sensitivity),
                                    RMul(frame.mean.at[q][1], sensitivity),
                                    RMul(frame.mean.at[q][2], sensitivity))
            IN  [c \in Chan |-> t[c]]]]

\* faulty variant: the packed triple replaces what the pixel held
Accumulate_Overwrite(working, pixel_id, triple) ==
    [working EXCEPT !.at[pixel_id] = [c \in Chan |-> triple[c]]]

\* faulty variant: the packed triple is added at every pixel
Accumulate_AllPixels(working, pixel_id, triple) ==
    [working EXCEPT !.at =
        [q \in Grid(working.shape) |->
            [c \in Chan |-> FloatAdd(working.at[q][c], triple[c])]]]

\* the accumulation of update: the working array with the packed triple
\* added at pixel_id, one channel at a time
Accumulate(working, pixel_id, triple) ==
    [working EXCEPT !.at[pixel_id] =
        [c \in Chan |-> FloatAdd(working.at[pixel_id][c], triple[c])]]

\* faulty variant: the working variance is not passed to combine_samples
MergeWorking_DropsVariance(frame, wmean, wvariance, n) ==
    LET merged(q, c) ==
            CombineSamples(<<frame.mean.at[q][c], frame.variance.at[q][c],
                             frame.samples.at[q][c]>>,
                           wmean.at[q][c], R0, n)
    IN  [frame EXCEPT
            !.mean.at = [q \in Grid(frame.pixels) |-> [c \in Chan |-> merged(q, c)[1]]],
            !.variance.at = [q \in Grid(frame.pixels) |-> [c \in Chan |-> merged(q, c)[2]]],
            !.samples.at = [q \in Grid(frame.pixels) |-> [c \in Chan |-> merged(q, c)[3]]]]

\* the merge loop of finalise over every pixel and channel of the frame
MergeWorking(frame, wmean, wvariance, n) ==
    LET merged(q, c) ==
            CombineSamples(<<frame.mean.at[q][c], frame.variance.at[q][c],
                             frame.samples.at[q][c]>>,
                           wmean.at[q][c], wvariance.at[q][c], n)
    IN  [frame EXCEPT
            !.mean.at = [q \in Grid(frame.pixels) |-> [c \in Chan |-> merged(q, c)[1]]],
            !.variance.at = [q \in Grid(frame.pixels) |-> [c \in Chan |-> merged(q, c)[2]]],
            !.samples.at = [q \in Grid(frame.pixels) |-> [c \in Chan |-> merged(q, c)[3]]]]

\* faulty variant: refreshes already when the interval has just elapsed
RefreshDue_AtInterval ==
    display_progress /\ (now - display_timer) >= display_update_time

\* _update_display refreshes when this holds
RefreshDue ==
    display_progress /\ (now - display_timer) > display_update_time

Called(op, err, draws, saved) ==
    [op |-> op, err |-> err, draws |-> draws, saved |-> saved]

Initialise(pixels, pixel_samples, spectral_slices) ==
    LET realloc == ReallocNeeded(pixels)
        frame == IF realloc THEN Frame2D(allocs + 1, pixels) ELSE xyz_frame
        rgb == IF realloc THEN Zeros(pixels) ELSE rgb_frame
        shown == IF display_progress THEN DisplayOutcome(rgb) ELSE "skipped"
    IN  /\ passes < MaxPasses
        /\ xyz_frame' = frame
        /\ rgb_frame' = rgb
        /\ allocs' = IF realloc THEN allocs + 1 ELSE allocs
        /\ working_mean' = Zeros(pixels)
        /\ working_variance' = Zeros(pixels)
        /\ resampled_xyz' =
               [list |-> [i \in DOMAIN spectral_slices |->
                   resample_ciexyz(spectral_slices[i].min_wavelength,
                                   spectral_slices[i].max_wavelength,
                                   spectral_slices[i].num_samples)]]
        /\ samples' = pixel_samples
        \* _start_display
        /\ display_timer' = IF shown = "ok" THEN now ELSE 0
        /\ last_refresh' = IF shown = "ok" THEN now ELSE last_refresh
        /\ call' = Called("initialise",
                          IF shown = "skipped" THEN "ok" ELSE shown,
                          IF shown = "ok" THEN 1 ELSE 0, FALSE)
        /\ prev' = [complete |-> phase = "finalised" /\ fins = 1,
                    fresh |-> run.realloc, samples |-> samples,
                    fid |-> IF xyz_frame = None THEN 0 ELSE xyz_frame.id,
                    dims |-> run.dims, fed |-> Len(run.log)]
        /\ run' = [acc |-> accumulate, realloc |-> realloc, dims |-> pixels,
                   log |-> <<>>]
        /\ settled' = [settled EXCEPT !.intact =
               @ /\ accumulate /\ xyz_frame # None /\ xyz_frame.pixels = pixels]
        /\ phase' = "initialised"
        /\ passes' = passes + 1
        /\ n_updates' = 0
        /\ fins' = 0
        /\ UNCHANGED <<sensitivity, display_progress, display_update_time,
                       accumulate, now, display_available>>

UpdateCall(pixel_id, packed_result, slice_id) ==
    LET fault == IF working_mean = None THEN "TypeError"
                 ELSE IF pixel_id \notin Grid(working_mean.shape) THEN "IndexError"
                 ELSE "ok"
        due == RefreshDue
        shown == IF due THEN DisplayOutcome(rgb_frame) ELSE "skipped"
    IN  /\ n_updates' = n_updates + 1
        /\ IF fault # "ok"
           THEN /\ call' = Called("update", fault, 0, FALSE)
                /\ UNCHANGED <<working_mean, working_variance, rgb_frame,
                               display_timer, last_refresh, run, phase>>
           ELSE /\ working_mean' = Accumulate(working_mean, pixel_id, packed_result.mean)
                /\ working_variance' =
                       Accumulate(working_variance, pixel_id, packed_result.variance)
                \* _update_display
                /\ rgb_frame' = IF due THEN GenerateSRGBFrame(xyz_frame, rgb_frame)
                                ELSE rgb_frame
                /\ display_timer' = IF shown = "ok" THEN now ELSE display_timer
                /\ last_refresh' = IF shown = "ok" THEN now ELSE last_refresh
                /\ call' = Called("update",
                                  IF shown = "skipped" THEN "ok" ELSE shown,
                                  IF shown = "ok" THEN 1 ELSE 0, FALSE)
                /\ run' = [run EXCEPT !.log = Append(@, <<pixel_id, packed_result>>)]
                /\ phase' = CASE phase = "initialised" -> "accumulating"
                               [] phase = "finalised" -> "reopened"
                               [] OTHER -> phase
        /\ UNCHANGED <<sensitivity, display_progress, display_update_time,
                       accumulate, xyz_frame, resampled_xyz, samples,
                       now, display_available, allocs, prev, settled, passes, fins>>

\* update, at most MaxUpdates times in a render pass
Update(pixel_id, packed_result, slice_id) ==
    /\ n_updates < MaxUpdates
    /\ UpdateCall(pixel_id, packed_result, slice_id)

Finalise ==
    /\ fins < MaxFinalise
    /\ fins' = fins + 1
    /\ IF xyz_frame = None
       THEN /\ call' = Called("finalise", "AttributeError", 0, FALSE)
            /\ UNCHANGED <<xyz_frame, rgb_frame, last_refresh, phase, settled>>
       ELSE LET frame == MergeWorking(xyz_frame, working_mean, working_variance, samples)
                rgb == GenerateSRGBFrame(frame, rgb_frame)
                shown == IF display_progress THEN DisplayOutcome(rgb) ELSE "skipped"
            IN  /\ xyz_frame' = frame
                /\ rgb_frame' = rgb
                /\ last_refresh' = IF shown = "ok" THEN now ELSE last_refresh
                /\ call' = Called("finalise",
                                  IF shown = "skipped" THEN "ok" ELSE shown,
                                  IF shown = "ok" THEN 1 ELSE 0, FALSE)
                /\ phase' = "finalised"
                /\ settled' = [last |-> frame, intact |-> TRUE]
    /\ UNCHANGED <<sensitivity, display_progress, display_timer, display_update_time,
                   accumulate, working_mean, working_variance, resampled_xyz,
                   samples, now, display_available, allocs, run, prev, passes,
                   n_updates>>

Display ==
    LET shown == DisplayOutcome(rgb_frame)
    IN  /\ call' = Called("display", shown, IF shown = "ok" THEN 1 ELSE 0, FALSE)
        /\ UNCHANGED <<pipeVars, envVars, phase, run, prev, settled, passes, n_updates,
                       fins, last_refresh>>

Save(filename) ==
    /\ call' = Called("save",
                      IF rgb_frame = None THEN "RuntimeError" ELSE "ok",
                      0, rgb_frame # None)
    /\ UNCHANGED <<pipeVars, envVars, phase, run, prev, settled, passes, n_updates,
                   fins, last_refresh>>

\* the attribute accumulate is assigned between renders
SetAccumulate(b) ==
    /\ phase \in {"idle", "finalised", "reopened"}
    /\ accumulate # b
    /\ accumulate' = b
    /\ call' = Called("set_accumulate", "ok", 0, FALSE)
    /\ UNCHANGED <<sensitivity, display_progress, display_timer, display_update_time,
                   xyz_frame, rgb_frame, working_mean, working_variance,
                   resampled_xyz, samples, envVars, phase, run, prev, settled, passes,
                   n_updates, fins, last_refresh>>

\* time passes; the clock is read only when display_progress is set
Tick ==
    /\ display_progress
    /\ now < ClockStart + MaxTime
    /\ now' = now + 1
    /\ call' = Called("tick", "ok", 0, FALSE)
    /\ UNCHANGED <<pipeVars, display_available, allocs, phase, run, prev, settled, passes,
                   n_updates, fins, last_refresh>>

PipelineInit ==
    /\ sensitivity \in Sensitivities
    /\ display_progress \in BOOLEAN
    /\ display_timer = 0
    /\ display_update_time \in UpdateTimes
    /\ accumulate \in BOOLEAN
    /\ xyz_frame = None
    /\ rgb_frame = None
    /\ working_mean = None
    /\ working_variance = None
    /\ resampled_xyz = None
    /\ samples = 0
    /\ now = ClockStart
    /\ display_available \in BOOLEAN
    /\ allocs = 0
    /\ call = Called("__init__", "ok", 0, FALSE)
    /\ phase = "idle"
    /\ run = [acc |-> FALSE, realloc |-> FALSE, dims |-> <<0, 0>>, log |-> <<>>]
    /\ prev = [complete |-> FALSE, fresh |-> FALSE, samples |-> 0, fid |-> 0,
               dims |-> <<0, 0>>, fed |-> 0]
    /\ settled = [last |-> None, intact |-> FALSE]
    /\ passes = 0
    /\ n_updates = 0
    /\ fins = 0
    /\ last_refresh = -1

\* ------------------------------------------------------------------------
\* XYZPixelProcessor
\* ------------------------------------------------------------------------
VARIABLES
    \* the XYZPixelProcessor instances pixel_processor has returned, each with
    \* the pixel its worker renders and the spectra it was given
    procs

procVars == <<procs>>

ProcIds == 1 .. MaxUpdates
Spectra == {"dark", "unit", "bright"}

\* spectrum_to_ciexyz (raysect.optical.colour, outside src/): the tristimulus
\* triple of a spectral sample, here a table over three sample spectra
spectrum_to_ciexyz(spectrum, resampled) ==
    CASE spectrum = "dark" -> Tri(R0, R0, R0)
      [] spectrum = "unit" -> Tri(R1, R1, R1)
      [] spectrum = "bright" -> Tri(RInt(2), R1, RInt(3))

\* Pixel(channels=3) (raysect.optical.observer.frame, outside src/): one
\* running statistic <<mean, variance, samples>> per channel
Pixel == [c \in Chan |-> <<R0, R0, 0>>]

\* Pixel.add_sample on the statistic of one channel: the running mean and
\* the running (n - 1)-normalised variance, zero below two samples
PixelAddSample(st, value) ==
    LET n == st[3] + 1
        d == RSub(value, st[1])
        mean == RAdd(st[1], RDiv(d, RInt(n)))
    IN  <<mean,
          IF n < 2 THEN R0
          ELSE RDiv(RAdd(RMul(RInt(n - 2), st[2]), RMul(d, RSub(value, mean))),
                    RInt(n - 1)),
          n>>

NoProcessor ==
    [state |-> "unused", slice_id |-> 0, resampled |-> None, pixel |-> <<0, 0>>,
     xyz |-> Pixel, fed |-> <<>>]

\* XYZPixelProcessor.add_sample: the processor after the sample
AddedSample(proc, spectrum) ==
    LET t == spectrum_to_ciexyz(spectrum, proc.resampled)
    IN  [proc EXCEPT !.xyz = [c \in Chan |-> PixelAddSample(proc.xyz[c], t[c])],
                     !.fed = Append(@, spectrum)]

\* XYZPixelProcessor.pack_results
PackResults(proc) ==
    [mean |-> Tri(proc.xyz[0][1], proc.xyz[1][1], proc.xyz[2][1]),
     variance |-> Tri(proc.xyz[0][2], proc.xyz[1][2], proc.xyz[2][2])]

\* pixel_processor(slice_id), the instance given to the worker of pixel_id
PixelProcessor(i, slice_id, pixel_id) ==
    /\ procs[i].state = "unused"
    /\ \A j \in ProcIds : j < i => procs[j].state # "unused"
    /\ resampled_xyz # None
    /\ slice_id < Len(resampled_xyz.list)
    /\ procs' = [procs EXCEPT ![i] =
                    [NoProcessor EXCEPT !.state = "open", !.slice_id = slice_id,
                                        !.resampled = resampled_xyz.list[slice_id + 1],
                                        !.pixel = pixel_id]]
    /\ call' = Called("pixel_processor", "ok", 0, FALSE)
    /\ UNCHANGED <<pipeVars, envVars, phase, run, prev, settled, passes, n_updates, fins,
                   last_refresh>>

SamplesFed == LET RECURSIVE Total(_)
                  Total(S) == IF S = {} THEN 0
                              ELSE LET i == CHOOSE j \in S : TRUE
                                   IN  Len(procs[i].fed) + Total(S \ {i})
              IN  Total(ProcIds)

AddSample(i, spectrum) ==
    /\ procs[i].state = "open"
    /\ SamplesFed < MaxSamples
    /\ procs' = [procs EXCEPT ![i] = AddedSample(procs[i], spectrum)]
    /\ call' = Called("add_sample", "ok", 0, FALSE)
    /\ UNCHANGED <<pipeVars, envVars, phase, run, prev, settled, passes, n_updates, fins,
                   last_refresh>>

\* the worker packs the results and the driver passes them to update
HandIn(i) ==
    /\ procs[i].state = "open"
    /\ Update(procs[i].pixel, PackResults(procs[i]), procs[i].slice_id)
    /\ procs' = [procs EXCEPT ![i].state = "packed"]

\* the one render of the workers starts
SplitInitialise(pixels, pixel_samples, spectral_slices) ==
    /\ phase = "idle"
    /\ Initialise(pixels, pixel_samples, spectral_slices)
    /\ UNCHANGED procs

ProcsInit == procs = [i \in ProcIds |-> NoProcessor]


\* add_sample by the worker of a pixel, which is given pixel_samples samples
FeedSample(i, spectrum) ==
    /\ procs[i].state = "open"
    /\ Len(procs[i].fed) < samples
    /\ procs' = [procs EXCEPT ![i] = AddedSample(procs[i], spectrum)]
    /\ call' = Called("add_sample", "ok", 0, FALSE)
    /\ UNCHANGED <<pipeVars, envVars, phase, run, prev, settled, passes, n_updates, fins,
                   last_refresh>>

\* the worker of a pixel has added its pixel_samples samples and hands in
HandInComplete(i) ==
    /\ Len(procs[i].fed) = samples
    /\ HandIn(i)

\* finalise once every worker has handed in (the barrier of the scheduler)
BarrierFinalise ==
    /\ phase = "accumulating"
    /\ \A i \in ProcIds : procs[i].state # "open"
    /\ Finalise
    /\ UNCHANGED procs
\* ------------------------------------------------------------------------
\* OrthographicCamera
\* ------------------------------------------------------------------------
VARIABLES
    \* OrthographicCamera attributes (_width, _pixels, pixel_samples and the
    \* derived geometry), the Rectangle point generator made at construction
    cam_width, cam_pixels, cam_pixel_samples, image_delta, image_start_x,
    image_start_y, point_generator,
    \* the last camera call: its arguments, its outcome and the rays returned
    cam_call

camVars == <<cam_width, cam_pixels, cam_pixel_samples, image_delta,
             image_start_x, image_start_y, point_generator, cam_call>>

\* inputs of the camera driver; the pixel dimensions and sample counts are
\* the ones the base class setters accept
CamWidths == {R1, RInt(2), RHalf}
BadWidths == {R0, RInt(-1)}
CamDims == {<<1, 1>>, <<2, 1>>, <<1, 2>>}
CamSampleCounts == {1, 2, 3}
CamPixelIds == Grid(<<2, 2>>)
RayTemplate ==
    [id |-> 0, origin |-> <<R0, R0, R0>>, direction |-> <<R0, R0, R1>>,
     config |-> "template"]

\* _update_image_geometry: the derived geometry of a width and pixel dimensions
UpdateImageGeometry(width, pixels) ==
    LET delta == RDiv(width, RInt(pixels[1]))
    IN  [image_delta |-> delta,
         image_start_x |-> RMul(RMul(RHalf, RInt(pixels[1])), delta),
         image_start_y |-> RMul(RMul(RHalf, RInt(pixels[2])), delta)]

\* faulty variant: the pixels setter leaves the derived geometry as it was
GeometryAfterPixels_Stale(pixels) ==
    [image_delta |-> image_delta, image_start_x |-> image_start_x,
     image_start_y |-> image_start_y]

\* the geometry the pixels setter leaves: _update_image_geometry after the
\* base class setter has stored the new dimensions
GeometryAfterPixels(pixels) == UpdateImageGeometry(cam_width, pixels)

\* faulty variant: only negative widths are rejected
WidthRejected_NegativeOnly(width) == RLt(width, R0)

\* the width setter raises ValueError
WidthRejected(width) == RLe(width, R0)

CamCalled(op, arg, err, rays) == [op |-> op, arg |-> arg, err |-> err, rays |-> rays]

\* width setter
SetWidth(width) ==
    IF WidthRejected(width)
    THEN /\ cam_call' = CamCalled("set_width", width, "ValueError", <<>>)
         /\ UNCHANGED <<cam_width, cam_pixels, cam_pixel_samples, image_delta,
                        image_start_x, image_start_y, point_generator>>
    ELSE LET geometry == UpdateImageGeometry(width, cam_pixels)
         IN  /\ cam_width' = width
             /\ image_delta' = geometry.image_delta
             /\ image_start_x' = geometry.image_start_x
             /\ image_start_y' = geometry.image_start_y
             /\ cam_call' = CamCalled("set_width", width, "ok", <<>>)
             /\ UNCHANGED <<cam_pixels, cam_pixel_samples, point_generator>>

\* pixels setter: the base class setter (outside src/) stores the dimensions
SetPixels(pixels) ==
    LET geometry == GeometryAfterPixels(pixels)
    IN  /\ cam_pixels' = pixels
        /\ image_delta' = geometry.image_delta
        /\ image_start_x' = geometry.image_start_x
        /\ image_start_y' = geometry.image_start_y
        /\ cam_call' = CamCalled("set_pixels", pixels, "ok", <<>>)
        /\ UNCHANGED <<cam_width, cam_pixel_samples, point_generator>>

\* pixel_samples, an attribute of the base class (outside src/)
SetPixelSamples(n) ==
    /\ cam_pixel_samples' = n
    /\ cam_call' = CamCalled("set_pixel_samples", n, "ok", <<>>)
    /\ UNCHANGED <<cam_width, cam_pixels, image_delta, image_start_x,
                   image_start_y, point_generator>>

\* Rectangle(width, height)(n) (point_generator, outside src/): n points of
\* the rectangle centred on the origin; any of these sequences may come back
RectanglePoints(generator, n) ==
    LET candidates == {<<R0, R0, R0>>,
                       <<RMul(RHalf, generator.width),
                         RSub(R0, RMul(RHalf, generator.height)), R0>>}
    IN  [1 .. n -> candidates]

\* SingleRay()(n) (vector_generators, outside src/): n times the z axis
SingleRayVectors(n) == [i \in 1 .. n |-> <<R0, R0, R1>>]

\* Point.transform and Vector.transform by translate(x, y, 0)
TranslatePoint(point, x, y) == <<RAdd(point[1], x), RAdd(point[2], y), point[3]>>
TranslateVector(vector, x, y) == vector

Min(a, b) == IF a < b THEN a ELSE b

\* faulty variant: the template itself is put into the batch
AssembleRays_SharedTemplate(origin_points, direction_vectors, pixel_x, pixel_y, ray_template) ==
    [i \in 1 .. Min(Len(origin_points), Len(direction_vectors)) |->
        [ray_template EXCEPT
            !.origin = TranslatePoint(origin_points[i], pixel_x, pixel_y),
            !.direction = TranslateVector(direction_vectors[i], pixel_x, pixel_y)]]

\* the loop of _generate_rays over zip(origin_points, direction_vectors);
\* ray_template.copy (raysect.optical.ray, outside src/) makes a new ray
\* object, here the i-th of the call, with the template's configuration
AssembleRays(origin_points, direction_vectors, pixel_x, pixel_y, ray_template) ==
    [i \in 1 .. Min(Len(origin_points), Len(direction_vectors)) |->
        [ray_template EXCEPT
            !.id = i,
            !.origin = TranslatePoint(origin_points[i], pixel_x, pixel_y),
            !.direction = TranslateVector(direction_vectors[i], pixel_x, pixel_y)]]

\* _generate_rays(ix, iy, ray_template)
GenerateRays(ix, iy, ray_template) ==
    LET pixel_x == RSub(image_start_x, RMul(image_delta, RInt(ix)))
        pixel_y == RSub(image_start_y, RMul(image_delta, RInt(iy)))
    IN  /\ \E origin_points \in RectanglePoints(point_generator, cam_pixel_samples) :
               cam_call' = CamCalled("generate_rays", <<ix, iy>>, "ok",
                                     AssembleRays(origin_points,
                                                  SingleRayVectors(cam_pixel_samples),
                                                  pixel_x, pixel_y, ray_template))
        /\ UNCHANGED <<cam_width, cam_pixels, cam_pixel_samples, image_delta,
                       image_start_x, image_start_y, point_generator>>

\* __init__(pixels, width, pixel_samples) of a camera that was constructed
CameraInit(pixels, width, pixel_samples) ==
    LET geometry == UpdateImageGeometry(width, pixels)
    IN  /\ ~WidthRejected(width)
        /\ cam_pixels = pixels
        /\ cam_pixel_samples = pixel_samples
        /\ cam_width = width
        /\ image_delta = geometry.image_delta
        /\ image_start_x = geometry.image_start_x
        /\ image_start_y = geometry.image_start_y
        /\ point_generator = [width |-> geometry.image_delta,
                              height |-> geometry.image_delta]
        /\ cam_call = CamCalled("__init__", <<pixels, width>>, "ok", <<>>)

\* ------------------------------------------------------------------------
\* update called by concurrent workers
\* ------------------------------------------------------------------------
VARIABLES
    \* per worker: its place in update (pc), the arguments of the call and the
    \* element it has loaded for the += in progress
    workers

concVars == <<workers>>

Workers == {"w1", "w2"}

IdleWorker == [busy |-> FALSE, pc |-> 0, pixel |-> <<0, 0>>, pack |-> PackUnit, tmp |-> R0]

\* the six += statements of update in program order: pc 2k is the load of
\* statement k, pc 2k + 1 its store; statement k adds to the mean (k < 3) or
\* to the variance (k >= 3) of channel k % 3
LastStatement == 5
StatementOf(pc) == pc \div 2
ChannelOf(pc) == StatementOf(pc) % 3
OnMean(pc) == StatementOf(pc) < 3

\* update is entered: pixel_id and packed_result are unpacked
BeginUpdate(w, pixel_id, packed_result) ==
    /\ ~workers[w].busy
    /\ n_updates < MaxUpdates
    /\ working_mean # None
    /\ pixel_id \in Grid(working_mean.shape)
    /\ workers' = [workers EXCEPT ![w] =
                      [busy |-> TRUE, pc |-> 0, pixel |-> pixel_id, pack |-> packed_result,
                       tmp |-> R0]]
    /\ n_updates' = n_updates + 1
    /\ run' = [run EXCEPT !.log = Append(@, <<pixel_id, packed_result>>)]
    /\ UNCHANGED <<pipeVars, envVars, call, phase, prev, settled, passes, fins, last_refresh>>

\* the element of the working array is read
LoadElement(w) ==
    LET pc == workers[w].pc
    IN  /\ workers[w].busy
        /\ pc <= 2 * LastStatement
        /\ pc % 2 = 0
        /\ workers' = [workers EXCEPT
               ![w].tmp = IF OnMean(pc)
                          THEN working_mean.at[workers[w].pixel][ChannelOf(pc)]
                          ELSE working_variance.at[workers[w].pixel][ChannelOf(pc)],
               ![w].pc = pc + 1]
        /\ UNCHANGED <<pipeVars, envVars, obsVars>>

\* the sum is written back to the working array
StoreElement(w) ==
    LET pc == workers[w].pc
        c == ChannelOf(pc)
        q == workers[w].pixel
    IN  /\ workers[w].busy
        /\ pc <= 2 * LastStatement + 1
        /\ pc % 2 = 1
        /\ IF OnMean(pc)
           THEN /\ working_mean' = [working_mean EXCEPT !.at[q][c] =
                                       FloatAdd(workers[w].tmp, workers[w].pack.mean[c])]
                /\ UNCHANGED working_variance
           ELSE /\ working_variance' = [working_variance EXCEPT !.at[q][c] =
                                           FloatAdd(workers[w].tmp, workers[w].pack.variance[c])]
                /\ UNCHANGED working_mean
        /\ workers' = [workers EXCEPT ![w].pc = pc + 1]
        /\ UNCHANGED <<sensitivity, display_progress, display_timer,
                       display_update_time, accumulate, xyz_frame, rgb_frame,
                       resampled_xyz, samples, envVars, obsVars>>

\* _update_display, and update returns
ReturnUpdate(w) ==
    LET due == RefreshDue
        shown == IF due THEN DisplayOutcome(rgb_frame) ELSE "skipped"
    IN  /\ workers[w].busy
        /\ workers[w].pc = 2 * LastStatement + 2
        /\ workers' = [workers EXCEPT ![w] = IdleWorker]
        /\ rgb_frame' = IF due THEN GenerateSRGBFrame(xyz_frame, rgb_frame)
                        ELSE rgb_frame
        /\ display_timer' = IF shown = "ok" THEN now ELSE display_timer
        /\ last_refresh' = IF shown = "ok" THEN now ELSE last_refresh
        /\ call' = Called("update", IF shown = "skipped" THEN "ok" ELSE shown,
                          IF shown = "ok" THEN 1 ELSE 0, FALSE)
        /\ phase' = CASE phase = "initialised" -> "accumulating"
                      [] phase = "finalised" -> "reopened"
                      [] OTHER -> phase
        /\ UNCHANGED <<sensitivity, display_progress, display_update_time,
                       accumulate, xyz_frame, working_mean, working_variance,
                       resampled_xyz, samples, envVars, run, prev, settled, passes,
                       n_updates, fins>>

WorkersInit == workers = [w \in Workers |-> IdleWorker]

\* ------------------------------------------------------------------------
\* Specifications
\* ------------------------------------------------------------------------
vars == <<pipeVars, envVars, obsVars, procVars, concVars, camVars>>

\* the camera of a render that only exercises the pipeline: the defaults
DefaultCamera == CameraInit(<<512, 512>>, R1, 100)

\* The render driver: the lifecycle calls in any order, progress display off
Init ==
    /\ PipelineInit
    /\ display_available
    /\ ~display_progress
    /\ display_update_time = 2
    /\ ProcsInit
    /\ WorkersInit
    /\ DefaultCamera

Next ==
    \/ /\ \E pixels \in Dims, pixel_samples \in SampleCounts, spectral_slices \in SliceSets :
              Initialise(pixels, pixel_samples, spectral_slices)
       /\ UNCHANGED <<procVars, concVars, camVars>>
    \/ /\ \E pixel_id \in PixelIds, packed_result \in Packs :
              Update(pixel_id, packed_result, 0)
       /\ UNCHANGED <<procVars, concVars, camVars>>
    \/ Finalise /\ UNCHANGED <<procVars, concVars, camVars>>
    \/ (\E b \in BOOLEAN : SetAccumulate(b)) /\ UNCHANGED <<procVars, concVars, camVars>>

Spec == Init /\ [][Next]_vars

\* The live render: progress display on, the clock running, a one-pixel image
LiveInit ==
    /\ PipelineInit
    /\ display_available
    /\ display_progress
    /\ ~accumulate
    /\ ProcsInit
    /\ WorkersInit
    /\ DefaultCamera

LiveNext ==
    \/ /\ \E spectral_slices \in SliceSets : Initialise(<<1, 1>>, 1, spectral_slices)
       /\ UNCHANGED <<procVars, concVars, camVars>>
    \/ Update(<<0, 0>>, PackMixed, 0) /\ UNCHANGED <<procVars, concVars, camVars>>
    \/ Finalise /\ UNCHANGED <<procVars, concVars, camVars>>
    \/ Display /\ UNCHANGED <<procVars, concVars, camVars>>
    \/ Save("frame.png") /\ UNCHANGED <<procVars, concVars, camVars>>
    \/ Tick /\ UNCHANGED <<procVars, concVars, camVars>>

SpecLive == LiveInit /\ [][LiveNext]_vars

\* The workers of one render: samples go through XYZPixelProcessor instances
\* whose packed results are passed to update
SplitInit ==
    /\ PipelineInit
    /\ display_available
    /\ ~display_progress
    /\ display_update_time = 2
    /\ ~accumulate
    /\ ProcsInit
    /\ WorkersInit
    /\ DefaultCamera

SplitNext ==
    \/ /\ \E pixel_samples \in SampleCounts, spectral_slices \in SliceSets :
              SplitInitialise(<<2, 1>>, pixel_samples, spectral_slices)
       /\ UNCHANGED <<concVars, camVars>>
    \/ /\ \E i \in ProcIds, slice_id \in {0, 1}, pixel_id \in PixelIds :
              PixelProcessor(i, slice_id, pixel_id)
       /\ UNCHANGED <<concVars, camVars>>
    \/ (\E i \in ProcIds, spectrum \in Spectra : AddSample(i, spectrum))
           /\ UNCHANGED <<concVars, camVars>>
    \/ (\E i \in ProcIds : HandIn(i)) /\ UNCHANGED <<concVars, camVars>>

SpecSplit == SplitInit /\ [][SplitNext]_vars

\* Workers calling update concurrently: the loads and stores of the six +=
\* statements of the calls interleave
ConcInit ==
    /\ PipelineInit
    /\ display_available
    /\ ~display_progress
    /\ display_update_time = 2
    /\ ~accumulate
    /\ ProcsInit
    /\ WorkersInit
    /\ DefaultCamera

ConcNext ==
    \/ /\ phase = "idle"
       /\ \E spectral_slices \in SliceSets : Initialise(<<2, 1>>, 1, spectral_slices)
       /\ UNCHANGED <<procVars, concVars, camVars>>
    \/ /\ \E w \in Workers, pixel_id \in PixelIds, packed_result \in {PackUnit, PackMixed} :
              BeginUpdate(w, pixel_id, packed_result)
       /\ UNCHANGED <<procVars, camVars>>
    \/ (\E w \in Workers : LoadElement(w)) /\ UNCHANGED <<procVars, camVars>>
    \/ (\E w \in Workers : StoreElement(w)) /\ UNCHANGED <<procVars, camVars>>
    \/ (\E w \in Workers : ReturnUpdate(w)) /\ UNCHANGED <<procVars, camVars>>

SpecConc == ConcInit /\ [][ConcNext]_vars

\* The camera: its setters and ray generation in any order
CamInit ==
    /\ PipelineInit
    /\ display_available
    /\ ~display_progress
    /\ display_update_time = 2
    /\ ~accumulate
    /\ ProcsInit
    /\ WorkersInit
    /\ \E pixels \in CamDims, width \in CamWidths, pixel_samples \in CamSampleCounts :
           CameraInit(pixels, width, pixel_samples)

CamNext ==
    \/ (\E width \in CamWidths \cup BadWidths : SetWidth(width))
           /\ UNCHANGED <<pipeVars, envVars, obsVars, procVars, concVars>>
    \/ (\E pixels \in CamDims : SetPixels(pixels))
           /\ UNCHANGED <<pipeVars, envVars, obsVars, procVars, concVars>>
    \/ (\E n \in CamSampleCounts : SetPixelSamples(n))
           /\ UNCHANGED <<pipeVars, envVars, obsVars, procVars, concVars>>
    \/ (\E q \in CamPixelIds : GenerateRays(q[1], q[2], RayTemplate))
           /\ UNCHANGED <<pipeVars, envVars, obsVars, procVars, concVars>>

SpecCam == CamInit /\ [][CamNext]_vars

\* The live render on a machine whose display surface may be missing
OutageInit ==
    /\ PipelineInit
    /\ display_progress
    /\ ~accumulate
    /\ ProcsInit
    /\ WorkersInit
    /\ DefaultCamera

OutageNext ==
    \/ /\ \E spectral_slices \in SliceSets : Initialise(<<1, 1>>, 1, spectral_slices)
       /\ UNCHANGED <<procVars, concVars, camVars>>
    \/ Update(<<0, 0>>, PackMixed, 0) /\ UNCHANGED <<procVars, concVars, camVars>>
    \/ Finalise /\ UNCHANGED <<procVars, concVars, camVars>>
    \/ Tick /\ UNCHANGED <<procVars, concVars, camVars>>

SpecOutage == OutageInit /\ [][OutageNext]_vars

\* The driver passing any sample count, valid or not, to initialise
BadSampleCounts == {0, -1}

ArgsInit ==
    /\ PipelineInit
    /\ display_available
    /\ ~display_progress
    /\ display_update_time = 2
    /\ ProcsInit
    /\ WorkersInit
    /\ DefaultCamera

ArgsNext ==
    \/ /\ \E pixel_samples \in {1} \cup BadSampleCounts, spectral_slices \in SliceSets :
              Initialise(<<1, 1>>, pixel_samples, spectral_slices)
       /\ UNCHANGED <<procVars, concVars, camVars>>
    \/ Update(<<0, 0>>, PackMixed, 0) /\ UNCHANGED <<procVars, concVars, camVars>>
    \/ Finalise /\ UNCHANGED <<procVars, concVars, camVars>>

SpecArgs == ArgsInit /\ [][ArgsNext]_vars

\* One render of one spectral slice: one processor per pixel, pixel_samples
\* samples each, every result passed to update, then finalise
OneSlice == <<Slice1>>

RenderInit ==
    /\ PipelineInit
    /\ display_available
    /\ ~display_progress
    /\ display_update_time = 2
    /\ ~accumulate
    /\ ProcsInit
    /\ WorkersInit
    /\ DefaultCamera

RenderNext ==
    \/ /\ \E pixel_samples \in SampleCounts : SplitInitialise(<<2, 1>>, pixel_samples, OneSlice)
       /\ UNCHANGED <<concVars, camVars>>
    \/ /\ \E i \in ProcIds, pixel_id \in PixelIds :
              /\ \A j \in ProcIds : procs[j].state # "unused" => procs[j].pixel # pixel_id
              /\ PixelProcessor(i, 0, pixel_id)
       /\ UNCHANGED <<concVars, camVars>>
    \/ (\E i \in ProcIds, spectrum \in Spectra : FeedSample(i, spectrum))
           /\ UNCHANGED <<concVars, camVars>>
    \/ (\E i \in ProcIds : HandInComplete(i)) /\ UNCHANGED <<concVars, camVars>>
    \/ BarrierFinalise /\ UNCHANGED <<concVars, camVars>>

SpecRender == RenderInit /\ [][RenderNext]_vars

\* One render pass fed a batch of updates in any order
OrderInit ==
    /\ PipelineInit
    /\ display_available
    /\ ~display_progress
    /\ display_update_time = 2
    /\ ~accumulate
    /\ ProcsInit
    /\ WorkersInit
    /\ DefaultCamera

OrderNext ==
    \/ /\ phase = "idle"
       /\ \E spectral_slices \in SliceSets : Initialise(<<2, 1>>, 1, spectral_slices)
       /\ UNCHANGED <<procVars, concVars, camVars>>
    \/ /\ n_updates < MaxBatch
       /\ phase \in {"initialised", "accumulating"}
       /\ \E pixel_id \in PixelIds, packed_result \in {PackUnit, PackLarge} :
              UpdateCall(pixel_id, packed_result, 0)
       /\ UNCHANGED <<procVars, concVars, camVars>>
    \/ /\ phase = "accumulating"
       /\ Finalise
       /\ UNCHANGED <<procVars, concVars, camVars>>

SpecOrder == OrderInit /\ [][OrderNext]_vars

\* ------------------------------------------------------------------------
\* Properties of the render lifecycle (Spec)
\* ------------------------------------------------------------------------
\* the sum of one field of the packed results the log holds for pixel q
RECURSIVE LogSum(_, _, _, _)
LogSum(log, q, c, field) ==
    IF log = <<>> THEN R0
    ELSE LET e == Head(log)
             v == IF field = "mean" THEN e[2].mean[c] ELSE e[2].variance[c]
         IN  RAdd(IF e[1] = q THEN v ELSE R0, LogSum(Tail(log), q, c, field))

\* the statistics a render of n samples per pixel fed with log leaves in a
\* buffer that held nothing before
FreshRenderAgrees(frame, dims, n, log) ==
    /\ frame.pixels = dims
    /\ \A q \in Grid(dims), c \in Chan :
          /\ frame.mean.at[q][c] = LogSum(log, q, c, "mean")
          /\ frame.variance.at[q][c] =
                 (IF n >= 2 THEN LogSum(log, q, c, "variance") ELSE R0)
          /\ frame.samples.at[q][c] = n

\* C3: with accumulate off, the Frame Buffer after a complete render is a
\* function of that render's inputs alone (its pixel_dimensions, pixel_samples
\* and updates): nothing of an earlier render is carried over, so two
\* different first renders followed by the same second render agree.
C3_NoCarryover ==
    (phase = "finalised" /\ fins = 1 /\ ~run.acc)
        => FreshRenderAgrees(xyz_frame, run.dims, samples, run.log)

\* a second complete render, accumulate off, after a first that merged updates
C3_Witness ==
    /\ phase = "finalised" /\ fins = 1 /\ ~run.acc
    /\ passes = 2 /\ prev.complete /\ prev.fed >= 1
    /\ Len(run.log) >= 1

\* C4: with accumulate on and identical pixel_dimensions, after two
\* consecutive complete renders (the first into a new buffer) every pixel and
\* channel of the Frame Buffer records the sum of the two passes'
\* pixel_samples, and the Frame Buffer is the object the first render made.
C4_AccumulatedSampleCount ==
    (/\ phase = "finalised" /\ fins = 1 /\ run.acc
     /\ prev.complete /\ prev.fresh /\ prev.dims = run.dims)
        => /\ xyz_frame.id = prev.fid
           /\ \A q \in Grid(run.dims), c \in Chan :
                  xyz_frame.samples.at[q][c] = prev.samples + samples

C4_Witness ==
    /\ phase = "finalised" /\ fins = 1 /\ run.acc
    /\ prev.complete /\ prev.fresh /\ prev.dims = run.dims
    /\ prev.samples # samples
    /\ prev.fed >= 1 /\ Len(run.log) >= 1

AllZero(array, dims, zero) ==
    /\ array.shape = dims
    /\ \A q \in Grid(dims), c \in Chan : array.at[q][c] = zero

\* C5: initialise keeps the Frame Buffer and the Display Buffer exactly when
\* accumulate is set, a Frame Buffer exists and its dimensions are the
\* requested ones; otherwise both are replaced by new all-zero buffers of the
\* requested dimensions.
C5_ReuseIffAccumulateSameDims ==
    [][call'.op = "initialise" =>
        IF accumulate /\ xyz_frame # None /\ xyz_frame.pixels = run'.dims
        THEN xyz_frame' = xyz_frame /\ rgb_frame' = rgb_frame
        ELSE /\ xyz_frame'.id > allocs
             /\ xyz_frame'.pixels = run'.dims
             /\ AllZero(xyz_frame'.mean, run'.dims, R0)
             /\ AllZero(xyz_frame'.variance, run'.dims, R0)
             /\ AllZero(xyz_frame'.samples, run'.dims, 0)
             /\ AllZero(rgb_frame', run'.dims, R0)]_vars

\* an initialise that kept a buffer holding merged statistics
C5_Witness ==
    /\ call.op = "initialise" /\ ~run.realloc
    /\ xyz_frame.samples.at[<<0, 0>>][0] > 0
    /\ xyz_frame.mean.at[<<0, 0>>][0] # R0

\* ------------------------------------------------------------------------
\* Properties of display and save (SpecLive)
\* ------------------------------------------------------------------------
\* C6: display and save raise the not-ready error, drawing and writing
\* nothing, when no initialise has run; after initialise, at least one update
\* and finalise, both return without raising.
C6_NotReadyThenReady ==
    call.op \in {"display", "save"} =>
        /\ passes = 0 =>
              call.err = "RuntimeError" /\ call.draws = 0 /\ ~call.saved
        /\ (phase = "finalised" /\ Len(run.log) >= 1) =>
              /\ call.err = "ok"
              /\ call.op = "display" => call.draws = 1
              /\ call.op = "save" => call.saved

\* save returned after a render that merged an update
C6_Witness ==
    /\ call.op = "save" /\ call.err = "ok" /\ call.saved
    /\ phase = "finalised" /\ Len(run.log) >= 1

\* C7: with progress display on, initialise refreshes the display exactly
\* once; an update of the render in progress refreshes it exactly when more
\* than display_update_time has passed since the last refresh; finalise
\* refreshes it exactly once whatever time has passed.
C7_Throttle ==
    [][display_progress =>
        /\ call'.op = "initialise" =>
              call'.draws = 1 /\ last_refresh' = now
        /\ (call'.op = "update" /\ call'.err = "ok"
                /\ phase \in {"initialised", "accumulating"}) =>
              /\ call'.draws = (IF now - last_refresh > display_update_time
                                THEN 1 ELSE 0)
              /\ call'.draws = 1 => last_refresh' = now
        /\ (call'.op = "finalise" /\ xyz_frame # None) =>
              call'.draws = 1 /\ last_refresh' = now]_vars

\* a second update-triggered refresh in one render
C7_Witness ==
    /\ call.op = "update" /\ call.draws = 1 /\ phase = "accumulating"
    /\ n_updates = 2 /\ now - ClockStart > 2 * display_update_time

\* ------------------------------------------------------------------------
\* Properties of the processors (SpecSplit)
\* ------------------------------------------------------------------------
\* the sum of channel c over a sequence of spectral samples
RECURSIVE ChannelSum(_, _)
ChannelSum(fed, c) ==
    IF fed = <<>> THEN R0
    ELSE RAdd(spectrum_to_ciexyz(Head(fed), None)[c], ChannelSum(Tail(fed), c))

\* the mean of channel c over a sequence of spectral samples
MeanOf(fed, c) ==
    IF fed = <<>> THEN R0 ELSE RDiv(ChannelSum(fed, c), RInt(Len(fed)))

\* the sum of the squared deviations of channel c from m
RECURSIVE SquaredDeviations(_, _, _)
SquaredDeviations(fed, c, m) ==
    IF fed = <<>> THEN R0
    ELSE LET d == RSub(spectrum_to_ciexyz(Head(fed), None)[c], m)
         IN  RAdd(RMul(d, d), SquaredDeviations(Tail(fed), c, m))

\* the (n - 1)-normalised variance of channel c, zero below two samples
VarianceOf(fed, c) ==
    IF Len(fed) < 2 THEN R0
    ELSE RDiv(SquaredDeviations(fed, c, MeanOf(fed, c)), RInt(Len(fed) - 1))

\* the processors of pixel q whose results were passed to update
PackedProcs(q) ==
    {i \in ProcIds : procs[i].state = "packed" /\ procs[i].pixel = q}

\* every sample given to the processors in S, as one sequence
RECURSIVE Unsplit(_)
Unsplit(S) ==
    IF S = {} THEN <<>>
    ELSE LET i == CHOOSE j \in S : \A k \in S : j <= k
         IN  procs[i].fed \o Unsplit(S \ {i})

\* the sum over the processors in S of the mean (or variance) of their own samples
RECURSIVE SumOfParts(_, _, _)
SumOfParts(S, c, field) ==
    IF S = {} THEN R0
    ELSE LET i == CHOOSE j \in S : TRUE
             v == IF field = "mean" THEN MeanOf(procs[i].fed, c)
                  ELSE VarianceOf(procs[i].fed, c)
         IN  RAdd(v, SumOfParts(S \ {i}, c, field))

\* the samples of pixel q went through two or more processors, each given at
\* least one sample, and every one of them was passed to update
SplitDone(q) ==
    /\ working_mean # None
    /\ \A i \in ProcIds : procs[i].state # "open"
    /\ Cardinality(PackedProcs(q)) >= 2
    /\ \A i \in PackedProcs(q) : procs[i].fed # <<>>

\* C1 as stated: the mean and variance the Working Accumulator holds for the
\* pixel after the updates are those of the unsplit sample sequence.
C1_SplitEqualsUnsplit ==
    \A q \in PixelIds : SplitDone(q) =>
        \A c \in Chan :
            /\ working_mean.at[q][c] = MeanOf(Unsplit(PackedProcs(q)), c)
            /\ working_variance.at[q][c] = VarianceOf(Unsplit(PackedProcs(q)), c)

\* C1 (amended): the mean and variance the Working Accumulator holds for a
\* pixel are the sums, over the Processor instances passed to update for that
\* pixel, of the mean and of the variance of each instance's own samples.
C1_SumOfPackedParts ==
    working_mean # None =>
        \A q \in Grid(working_mean.shape), c \in Chan :
            /\ working_mean.at[q][c] = SumOfParts(PackedProcs(q), c, "mean")
            /\ working_variance.at[q][c] = SumOfParts(PackedProcs(q), c, "variance")

\* three samples of one pixel split over two processors, both passed to update
C1_Witness ==
    /\ SplitDone(<<0, 0>>)
    /\ Len(Unsplit(PackedProcs(<<0, 0>>))) = 3
    /\ working_variance.at[<<0, 0>>][0] # R0

\* ------------------------------------------------------------------------
\* Properties of concurrent updates (SpecConc)
\* ------------------------------------------------------------------------
\* C2: once every concurrent update has returned, each channel of the
\* Working Accumulator at every pixel is its value before the calls (zero,
\* as initialise left it) plus the sum of the means (variances) the callers
\* passed for that pixel: no contribution is lost, whatever the interleaving.
C2_NoLostUpdate ==
    (working_mean # None /\ \A w \in Workers : ~workers[w].busy) =>
        \A q \in Grid(working_mean.shape), c \in Chan :
            /\ working_mean.at[q][c] = LogSum(run.log, q, c, "mean")
            /\ working_variance.at[q][c] = LogSum(run.log, q, c, "variance")

\* ------------------------------------------------------------------------
\* Properties of the camera (SpecCam)
\* ------------------------------------------------------------------------
\* C8: after construction and after every mutation of width or of the pixel
\* dimensions, the pixel pitch is the width divided by the number of pixels
\* along x, and the origin offset is half the pixel dimensions times the
\* pitch on both axes (so the pitch scales with the width).
C8_GeometryConsistent ==
    /\ RMul(image_delta, RInt(cam_pixels[1])) = cam_width
    /\ image_delta = RDiv(cam_width, RInt(cam_pixels[1]))
    /\ RMul(RInt(2), image_start_x) = RMul(RInt(cam_pixels[1]), image_delta)
    /\ RMul(RInt(2), image_start_y) = RMul(RInt(cam_pixels[2]), image_delta)

\* the pixel dimensions were changed on a camera whose width is not the one
\* it was constructed with, to a non-square image
C8_Witness ==
    /\ cam_call.op = "set_pixels"
    /\ cam_pixels = <<1, 2>>
    /\ cam_width = RInt(2)
    /\ image_start_y = RInt(2)

\* C9: setting width to 0 or to a negative value raises ValueError and
\* leaves width, the pixel pitch and the origin offset as they were.
C9_BadWidthRejected ==
    [][(cam_call'.op = "set_width" /\ RLe(cam_call'.arg, R0)) =>
        /\ cam_call'.err = "ValueError"
        /\ cam_width' = cam_width
        /\ image_delta' = image_delta
        /\ image_start_x' = image_start_x
        /\ image_start_y' = image_start_y]_vars

\* width 0 was refused on a camera of width 1/2
C9_Witness ==
    /\ cam_call.op = "set_width" /\ cam_call.arg = R0
    /\ cam_call.err = "ValueError"
    /\ cam_width = RHalf

InBounds(q) == q \in Grid(cam_pixels)

\* C10: for a pixel within the image and pixel_samples >= 1, _generate_rays
\* returns exactly pixel_samples rays, each a copy of the template that is
\* neither the template itself nor another entry of the batch.
C10_RayBatch ==
    (cam_call.op = "generate_rays" /\ InBounds(cam_call.arg)
         /\ cam_pixel_samples >= 1) =>
        /\ Len(cam_call.rays) = cam_pixel_samples
        /\ \A i \in 1 .. Len(cam_call.rays) :
              /\ cam_call.rays[i].id # RayTemplate.id
              /\ cam_call.rays[i].config = RayTemplate.config
              /\ \A j \in 1 .. Len(cam_call.rays) :
                    i # j => cam_call.rays[i].id # cam_call.rays[j].id

\* a batch of three rays for the second pixel of a row
C10_Witness ==
    /\ cam_call.op = "generate_rays" /\ cam_call.arg = <<1, 0>>
    /\ cam_pixels = <<2, 1>>
    /\ Len(cam_call.rays) = 3
    /\ cam_call.rays[1].origin # cam_call.rays[2].origin

\* C11: _generate_rays for a pixel outside the image is rejected with an
\* error before the generators are asked for points, and returns no rays.
C11_OutOfBoundsRejected ==
    (cam_call.op = "generate_rays" /\ ~InBounds(cam_call.arg)) =>
        /\ cam_call.err # "ok"
        /\ cam_call.rays = <<>>

\* C15: at every _generate_rays call the Rectangle point generator has the
\* current image_delta as its extent in both axes.
C15_GeneratorFollowsPitch ==
    cam_call.op = "generate_rays" =>
        /\ point_generator.width = image_delta
        /\ point_generator.height = image_delta

\* C12: a failure of the display refresh inside initialise, update or
\* finalise is not passed on to the caller: the call returns normally.
C12_DisplayFailureNotFatal ==
    call.op \in {"initialise", "update", "finalise"} => call.err # "DisplayError"

\* C13: initialise does not accept a non-positive pixel_samples: an
\* initialise that returned normally has recorded a sample count of at
\* least one.
C13_BadSamplesRejected ==
    (call.op = "initialise" /\ call.err = "ok") => samples >= 1

\* ------------------------------------------------------------------------
\* Properties of a complete render (SpecRender)
\* ------------------------------------------------------------------------
\* the samples the one processor of pixel q was given
SamplesOf(q) == procs[CHOOSE i \in PackedProcs(q) : TRUE].fed

\* C14: in a first render of one spectral slice, where each pixel's samples
\* went through one processor handed to update once and pixel_samples is the
\* number of samples per pixel, the Frame Buffer after finalise holds for
\* every such pixel and channel the mean and the variance of the samples the
\* pixel was given, and pixels given the same samples have the same Display
\* Buffer values.
C14_FrameHoldsSampleStatistics ==
    (phase = "finalised" /\ fins = 1) =>
        /\ \A q \in Grid(run.dims) : PackedProcs(q) # {} =>
              /\ Cardinality(PackedProcs(q)) = 1
              /\ Len(SamplesOf(q)) = samples
              /\ \A c \in Chan :
                    /\ xyz_frame.mean.at[q][c] = MeanOf(SamplesOf(q), c)
                    /\ xyz_frame.variance.at[q][c] = VarianceOf(SamplesOf(q), c)
        /\ \A q \in Grid(run.dims), r \in Grid(run.dims) :
              (PackedProcs(q) # {} /\ PackedProcs(r) # {}
                   /\ SamplesOf(q) = SamplesOf(r)) =>
                  rgb_frame.at[q] = rgb_frame.at[r]

\* pixel (0, 0) was given {0, 2} in X and pixel (1, 0) was given {1, 1}: the
\* same mean 1, a positive variance at (0, 0) and variance 0 at (1, 0)
C14_Witness ==
    /\ phase = "finalised" /\ fins = 1
    /\ PackedProcs(<<0, 0>>) # {} /\ PackedProcs(<<1, 0>>) # {}
    /\ SamplesOf(<<0, 0>>) = <<"dark", "bright">>
    /\ SamplesOf(<<1, 0>>) = <<"unit", "unit">>
    /\ xyz_frame.mean.at[<<0, 0>>][0] = R1
    /\ xyz_frame.mean.at[<<1, 0>>][0] = R1
    /\ RLt(R0, xyz_frame.variance.at[<<0, 0>>][0])
    /\ xyz_frame.variance.at[<<1, 0>>][0] = R0

\* ------------------------------------------------------------------------
\* Properties of the buffers over several renders (Spec)
\* ------------------------------------------------------------------------
\* C16: a finalise that follows another finalise of the same render pass,
\* with or without updates in between, leaves the Frame Buffer as it was: the
\* Working Accumulator of a pass is merged once.
C16_MergedOnce ==
    [][(call'.op = "finalise" /\ call'.err = "ok" /\ fins >= 1)
          => xyz_frame' = xyz_frame]_vars

InFlight == phase \in {"initialised", "accumulating"}

\* C17 as stated: during a render pass that has not been finalised the
\* statistics and sample counts of the Frame Buffer are those the last
\* completed finalise left, whatever accumulate is.
C17_AbandonedKeepsLastMerged ==
    (InFlight /\ settled.last # None) =>
        /\ xyz_frame.mean = settled.last.mean
        /\ xyz_frame.variance = settled.last.variance
        /\ xyz_frame.samples = settled.last.samples

\* C17 (amended): during a render pass that has not been finalised the Frame
\* Buffer is the one the last completed finalise left if every initialise
\* since then had accumulate set and asked for the same pixel dimensions;
\* otherwise it is an all-zero buffer of the dimensions last asked for.
\* update never writes it.
C17_AbandonedKeepsInitialised ==
    InFlight =>
        IF settled.intact THEN xyz_frame = settled.last
        ELSE /\ xyz_frame.pixels = run.dims
             /\ AllZero(xyz_frame.mean, run.dims, R0)
             /\ AllZero(xyz_frame.variance, run.dims, R0)
             /\ AllZero(xyz_frame.samples, run.dims, 0)

\* a pass with accumulate set was fed an update and not finalised; the buffer
\* holds what the finalise of the pass before merged
C17_Witness ==
    /\ phase = "accumulating" /\ settled.intact
    /\ Len(run.log) >= 1
    /\ xyz_frame.samples.at[<<0, 0>>][0] > 0
    /\ xyz_frame.mean.at[<<0, 0>>][0] # R0

\* ------------------------------------------------------------------------
\* Properties of the Display Buffer (SpecLive)
\* ------------------------------------------------------------------------
\* every pixel of the Display Buffer is the colour transform of the Frame
\* Buffer's mean times the sensitivity
DisplayDerived ==
    /\ rgb_frame.shape = xyz_frame.pixels
    /\ \A q \in Grid(rgb_frame.shape), c \in Chan :
          rgb_frame.at[q][c] =
              ciexyz_to_srgb(RMul(xyz_frame.mean.at[q][0], sensitivity),
                             RMul(xyz_frame.mean.at[q][1], sensitivity),
                             RMul(xyz_frame.mean.at[q][2], sensitivity))[c]

\* C18: after every completed finalise and after every display refresh made
\* by update the Display Buffer is the colour transform of the Frame Buffer
\* (mean times sensitivity), and only initialise, finalise and the refresh of
\* update write the Display Buffer.
C18_DisplayBufferDerived ==
    [][/\ (call'.op = "finalise" /\ call'.err = "ok") => DisplayDerived'
       /\ (call'.op = "update" /\ call'.draws = 1) => DisplayDerived'
       /\ rgb_frame' # rgb_frame =>
              \/ call'.op \in {"initialise", "finalise"}
              \/ call'.op = "update" /\ call'.draws = 1]_vars

\* an update refreshed the display of a Frame Buffer holding merged samples
C18_Witness ==
    /\ call.op = "update" /\ call.draws = 1
    /\ xyz_frame.mean.at[<<0, 0>>][0] # R0
    /\ DisplayDerived

\* ------------------------------------------------------------------------
\* Buffer dimensions (Spec)
\* ------------------------------------------------------------------------
HasShape(array, dims) == array.shape = dims /\ DOMAIN array.at = Grid(dims)

\* C20: once initialise has run, the Frame Buffer, the Display Buffer and
\* both arrays of the Working Accumulator have the pixel dimensions passed to
\* the most recent initialise, whatever accumulate was at each initialise and
\* whatever updates and finalises came in between.
C20_BuffersShareDimensions ==
    passes >= 1 =>
        /\ xyz_frame.pixels = run.dims
        /\ HasShape(xyz_frame.mean, run.dims)
        /\ HasShape(xyz_frame.variance, run.dims)
        /\ HasShape(xyz_frame.samples, run.dims)
        /\ HasShape(rgb_frame, run.dims)
        /\ HasShape(working_mean, run.dims)
        /\ HasShape(working_variance, run.dims)

\* a second render of other dimensions, accumulate set, was finalised after
\* a complete first render
C20_Witness ==
    /\ passes = 2 /\ run.acc /\ prev.complete
    /\ prev.dims # run.dims
    /\ phase = "finalised" /\ Len(run.log) >= 1

\* ------------------------------------------------------------------------
\* Order of the updates of a render pass (SpecOrder)
\* ------------------------------------------------------------------------
PermutationsOf(n) ==
    {f \in [1 .. n -> 1 .. n] : \A i, j \in 1 .. n : i # j => f[i] # f[j]}

Reordered(log, f) == [i \in 1 .. Len(log) |-> log[f[i]]]

\* the updates of pixel q in log, in their order
PixelLog(log, q) == SelectSeq(log, LAMBDA e : e[1] = q)

\* the float sum, in call order, of one field of the updates of pixel q
RECURSIVE FoldPixel(_, _, _, _)
FoldPixel(log, q, c, field) ==
    IF log = <<>> THEN R0
    ELSE LET e == log[Len(log)]
             v == IF field = "mean" THEN e[2].mean[c] ELSE e[2].variance[c]
             before == FoldPixel(SubSeq(log, 1, Len(log) - 1), q, c, field)
         IN  IF e[1] = q THEN FloatAdd(before, v) ELSE before

\* the Working Accumulator is what the updates of log, made in this order,
\* leave in it
AccumulatorOf(log) ==
    \A q \in Grid(run.dims), c \in Chan :
        /\ working_mean.at[q][c] = FoldPixel(log, q, c, "mean")
        /\ working_variance.at[q][c] = FoldPixel(log, q, c, "variance")

\* C19 as stated: the Working Accumulator after the updates of a render pass
\* is what any other order of the same updates leaves in it.
C19_OrderIndependent ==
    InFlight =>
        \A f \in PermutationsOf(Len(run.log)) :
            AccumulatorOf(Reordered(run.log, f))

\* f keeps the order of the updates of every pixel that has three or more
KeepsLongPixelOrder(log, f) ==
    \A q \in Grid(run.dims) :
        Len(PixelLog(log, q)) >= 3 =>
            PixelLog(Reordered(log, f), q) = PixelLog(log, q)

\* C19 (amended): the Working Accumulator after the updates of a render pass
\* is what any order of the same updates leaves in it that keeps the order
\* of the updates of each pixel updated three or more times: updates of
\* different pixels can be exchanged, and so can the two updates of a pixel.
C19_OrderAcrossPixels ==
    InFlight =>
        \A f \in PermutationsOf(Len(run.log)) :
            KeepsLongPixelOrder(run.log, f) => AccumulatorOf(Reordered(run.log, f))

\* three updates, two of one pixel around one of the other, a large and a
\* unit mean among them
C19_Witness ==
    /\ phase = "accumulating" /\ Len(run.log) = 3
    /\ run.log[1][1] = <<0, 0>> /\ run.log[2][1] = <<1, 0>> /\ run.log[3][1] = <<0, 0>>
    /\ run.log[1][2] = PackLarge /\ run.log[3][2] = PackUnit
    /\ working_mean.at[<<0, 0>>][0] = RInt(Pow2(SignificandBits))

====
